---- MODULE Spec2Model ----
(***************************************************************************)
(* A model of multitool/multitool.py: the MultiTool orchestrator, its row  *)
(* partitioner chunk(), the shared output buffer it creates with           *)
(* SharedArray, and the per-chunk worker mt_worker.                        *)
(*                                                                         *)
(* Arrays are records [shape |-> <<bands, rows, cols>>, d |-> cells] with  *)
(* cells indexed from 0 as in numpy.  NaN is the integer -1; every other   *)
(* cell value is a natural number.                                         *)
(***************************************************************************)
EXTENDS Integers, Sequences, FiniteSets, TLC

\* ------------------------------------------------------------------ bounds
\* largest band count of an input array and largest nbandsout
MaxBands == 2
\* largest row count of an input array handed to the orchestrator
MaxRows == 2
\* largest column count of an input array
MaxCols == 1
\* largest row count and chunk count MultiTool.chunk is called with directly
MaxChunkRows == 7
MaxChunkN == 7
MaxChunkCols == 2
\* most invocations made on one MultiTool instance
MaxCalls == 2
\* how many chunks the pool may hand out past the oldest chunk in flight
MaxLag == 1

\* ------------------------------------------------------- program constants
\* the default of chunk()'s nchunks parameter, the only value a run uses
DefaultNChunks == 100

NaN == -1

\* ------------------------------------------------------------------ arrays
Bands(shape) == shape[1]
Rows(shape) == shape[2]
Cols(shape) == shape[3]

Cells(shape) ==
    (0 .. Bands(shape) - 1) \X (0 .. Rows(shape) - 1) \X (0 .. Cols(shape) - 1)

Min(a, b) == IF a < b THEN a ELSE b

\* ------------------------------------------------------- MultiTool.chunk
\* sum(chszs[:k]) : the sum of the first k entries of the list
RECURSIVE SumPrefix(_, _)
SumPrefix(chszs, k) ==
    IF k = 0 THEN 0 ELSE SumPrefix(chszs, k - 1) + chszs[k]

\* a plausible slip: the row offset taken as ichunk * chunksz instead of the
\* running sum of the sizes
chunk_mutant(shape, n) ==
    LET chunksz == Rows(shape) \div n
        remainder == Rows(shape) - chunksz * n
    IN  [i \in 1 .. n |->
            <<0, (i - 1) * chunksz, Cols(shape),
              IF i <= n - remainder THEN chunksz ELSE chunksz + 1>>]

\* another plausible slip: the larger chunks put first,
\* [chunksz + 1] * remainder + [chunksz] * (nchunks - remainder)
chunk_mutant_order(shape, n) ==
    LET chunksz == Rows(shape) \div n
        remainder == Rows(shape) - chunksz * n
        chszs == [i \in 1 .. n |->
                    IF i <= remainder THEN chunksz + 1 ELSE chunksz]
    IN  [i \in 1 .. n |->
            <<0, SumPrefix(chszs, i - 1), Cols(shape), chszs[i]>>]

\* chunk(shape, nchunks): descriptors <<col_offset, row_offset, col_extent,
\* row_extent>>, 1-indexed here (chunk i of the model is ichunk = i - 1)
chunk(shape, n) ==
    LET chunksz == Rows(shape) \div n
        remainder == Rows(shape) - chunksz * n
        chszs == [i \in 1 .. n |->
                    IF i <= n - remainder THEN chunksz ELSE chunksz + 1]
    IN  [i \in 1 .. n |->
            <<0, SumPrefix(chszs, i - 1), Cols(shape), chszs[i]>>]

ColOff(ch) == ch[1]
RowOff(ch) == ch[2]
ColExt(ch) == ch[3]
RowExt(ch) == ch[4]

\* ------------------------------------------------------ numpy operations
\* arr[:, r0:r0+rext, c0:c0+cext]: a slice is clamped to the array's extent
SliceShape(shape, ch) ==
    <<Bands(shape),
      Min(RowOff(ch) + RowExt(ch), Rows(shape)) - Min(RowOff(ch), Rows(shape)),
      Min(ColOff(ch) + ColExt(ch), Cols(shape)) - Min(ColOff(ch), Cols(shape))>>

Slice(arr, ch) ==
    LET sh == SliceShape(arr.shape, ch)
    IN  [shape |-> sh,
         d |-> [x \in Cells(sh) |->
                  arr.d[<<x[1], RowOff(ch) + x[2], ColOff(ch) + x[3]>>]]]

\* numpy's rule for target[...] = source: every source dimension equals the
\* target's or is 1
Broadcastable(src, tgt) ==
    \A k \in 1 .. 3 : src[k] = tgt[k] \/ src[k] = 1

\* np.empty(shape); a[:] = np.nan
NanArray(shape) == [shape |-> shape, d |-> [x \in Cells(shape) |-> NaN]]

\* arr[:, r0:r0+rext, c0:c0+cext] = output, for a broadcastable output (an
\* empty target region leaves the array as it is)
AssignRegion(arr, ch, output) ==
    LET tgt == SliceShape(arr.shape, ch)
        src == output.shape
        at(k, i) == IF src[k] = 1 THEN 0 ELSE i
    IN  IF Cells(tgt) = {} THEN arr
        ELSE [arr EXCEPT !.d =
            [x \in Cells(arr.shape) |->
               IF /\ x[2] >= RowOff(ch) /\ x[2] < RowOff(ch) + tgt[2]
                  /\ x[3] >= ColOff(ch) /\ x[3] < ColOff(ch) + tgt[3]
               THEN output.d[<<at(1, x[1]), at(2, x[2] - RowOff(ch)),
                               at(3, x[3] - ColOff(ch))>>]
               ELSE arr.d[x]]]

\* whether cell x of the array lies in the region that the default write
\* function assigns for chunk ch: all bands of [:, r0:r0+rext, c0:c0+cext]
InRegion(x, ch) ==
    /\ x[2] >= RowOff(ch) /\ x[2] < RowOff(ch) + RowExt(ch)
    /\ x[3] >= ColOff(ch) /\ x[3] < ColOff(ch) + ColExt(ch)

\* ------------------------------------------- the caller's transforms (pfunc)
\* pixel-wise transforms a caller may configure.  Each maps the matrix of
\* valid pixel-vectors (bands x count) to (output bands x count):
\*   ident     lambda x: x                      (test_multiprocess.py:20)
\*   plus1     one added to every value         (test_multiprocess.py:28)
\*   sumbands  the sum over the bands: one output band
\*   raise1    lambda x: x, but raises when its input holds the value 1
Pfuncs == {"ident", "plus1", "sumbands", "raise1"}

Inc(v) == IF v = NaN THEN NaN ELSE v + 1

RECURSIVE SumBands(_, _)
SumBands(vec, nb) ==
    IF nb = 0 THEN 0
    ELSE LET rest == SumBands(vec, nb - 1)
         IN  IF rest = NaN \/ vec[nb - 1] = NaN THEN NaN ELSE rest + vec[nb - 1]

\* the band count of pf's result for an input of nb bands
PfuncBands(pf, nb) == IF pf = "sumbands" THEN 1 ELSE nb

\* pf's result for one pixel-vector vec (a function on 0 .. nb-1)
PfuncPixel(pf, vec, nb) ==
    CASE pf = "plus1" -> [b \in 0 .. nb - 1 |-> Inc(vec[b])]
      [] pf = "sumbands" -> [b \in {0} |-> SumBands(vec, nb)]
      [] OTHER -> vec

\* whether pf raises on the pixel-vectors at positions px of data
PfuncRaises(pf, data, px) ==
    /\ pf = "raise1"
    /\ \E p \in px : \E b \in 0 .. Bands(data.shape) - 1 :
          data.d[<<b, p[1], p[2]>>] = 1

\* --------------------------------------------------------------- mt_worker
\* valid = np.all(~np.isnan(data), axis=0), or all ones without dropnodata
ValidPixels(data, drop) ==
    {p \in (0 .. Rows(data.shape) - 1) \X (0 .. Cols(data.shape) - 1) :
        drop => \A b \in 0 .. Bands(data.shape) - 1 :
                    data.d[<<b, p[1], p[2]>>] # NaN}

\* the body of the try: output[:, valid] = MT_PFUNC(data[:, valid]) raises
\* when the transform raises, or when its result does not broadcast into the
\* MT_OUTBANDS rows of output[:, valid]
TryRaises(mt, data) ==
    \/ PfuncRaises(mt.PFUNC, data, ValidPixels(data, mt.DROPNODATA))
    \/ PfuncBands(mt.PFUNC, Bands(data.shape)) \notin {mt.OUTBANDS, 1}

\* the scratch output after the try has succeeded
ScratchOutput(mt, data) ==
    LET nb == Bands(data.shape)
        sh == <<mt.OUTBANDS, Rows(data.shape), Cols(data.shape)>>
        valid == ValidPixels(data, mt.DROPNODATA)
        vec(p) == [b \in 0 .. nb - 1 |-> data.d[<<b, p[1], p[2]>>]]
        res(p) == PfuncPixel(mt.PFUNC, vec(p), nb)
        row(b) == IF PfuncBands(mt.PFUNC, nb) = 1 THEN 0 ELSE b
    IN  [shape |-> sh,
         d |-> [x \in Cells(sh) |->
                  IF <<x[2], x[3]>> \in valid
                  THEN res(<<x[2], x[3]>>)[row(x[1])]
                  ELSE NaN]]

\* the array that the read function rf slices: the array its lambda closes
\* over; for kind "shared" that array is the instance's shared array buf
\* itself, as it is at the time of the read
ReadSource(rf, buf) == IF rf.kind = "shared" THEN buf ELSE rf.arr

\* mt_worker(chunk) with the globals mt, on the buffer buf that the default
\* write function assigns into (a write function of the caller's is called
\* and leaves the buffer alone).  exc is the exception that leaves mt_worker:
\*   TypeError   the except clause formats ' '.join(chunk) of a list of ints
\*   ValueError  the write function's assignment does not broadcast
\* calls counts the read, transform and write calls made for the chunk.
mt_worker(mt, ch, buf) ==
    LET data == Slice(ReadSource(mt.RFUNC, buf), ch)
    IN  IF TryRaises(mt, data)
        THEN [exc |-> "TypeError", buf |-> buf, calls |-> <<1, 1, 0>>]
        ELSE LET output == ScratchOutput(mt, data)
             IN  IF mt.WFUNC = "caller"
                 THEN [exc |-> "none", buf |-> buf, calls |-> <<1, 1, 1>>]
                 ELSE
                 IF Broadcastable(output.shape, SliceShape(buf.shape, ch))
                 THEN [exc |-> "none", buf |-> AssignRegion(buf, ch, output),
                       calls |-> <<1, 1, 1>>]
                 ELSE [exc |-> "ValueError", buf |-> buf, calls |-> <<1, 1, 1>>]

\* ------------------------------------------------------------------- state
VARIABLES
    self,       \* the MultiTool instance: its attributes, and which exist
    MT,         \* the module globals MT_OUTBANDS, MT_RFUNC, ... of the workers
    shm,        \* SharedArray: the arrays created, by name (1, 2, ...)
    deleted,    \* SharedArray: how often sa.delete was called on each name
    pc,         \* where the invocation in progress stands
    entry,      \* the entry point of the current (or last) invocation
    arg,        \* its argument: arrin, or the array behind the caller's rfunc,
                \* with the contents it has at the call
    calls,      \* invocations made so far
    outcome,    \* how the last invocation ended: returned, or the exception
    ret,        \* the array handed to the caller (a shared array's name)
    created,    \* the shared arrays the current invocation created
    handed,     \* the shared arrays handed to the caller so far
    status,     \* per chunk of the run: Pending, Running, Done, Failed
    log,        \* per chunk: <<reads, transform calls, writes>>
    readby,     \* the read functions called during the run
    idx,        \* pool: the next chunk of the task queue
    inflight,   \* pool: the chunks taken by a worker and not completed
    prev,       \* the caller's record of the last returned invocation
    cargs,      \* a direct call chunk(shape, nchunks): its arguments
    cret        \* and its result

vars == <<self, MT, shm, deleted, pc, entry, arg, calls, outcome, ret,
          created, handed, status, log, readby, idx, inflight, prev,
          cargs, cret>>

runvars == <<self, MT, shm, deleted, pc, entry, arg, calls, outcome, ret,
             created, handed, status, log, readby, idx, inflight, prev>>

NoArray == NanArray(<<0, 0, 0>>)
NoRfunc == [kind |-> "unset", arr |-> NoArray]

\* no invocation has returned yet
NoPrev == [entry |-> "none", arg |-> NoArray, name |-> 0, out |-> NoArray]

\* --------------------------------------------------------------- the caller
\* the cell values of the caller's arrays: distinct per cell, 1 only at
\* band 0, row 1, column 0
CellValue(x) == x[2] + 10 * x[1] + 100 * x[3]

\* an input array of the given shape, with NaN in the last band of the
\* first pixel when nan
InputArray(shape, nan) ==
    [shape |-> shape,
     d |-> [x \in Cells(shape) |->
              IF nan /\ x = <<Bands(shape) - 1, 0, 0>> THEN NaN
              ELSE CellValue(x)]]

\* the caller's two arrays: a smaller one without NaN and the largest one
\* with a NaN
SmallShape == <<MaxBands - 1, MaxRows - 1, MaxCols>>
LargeShape == <<MaxBands, MaxRows, MaxCols>>

Inputs == {InputArray(SmallShape, FALSE), InputArray(LargeShape, TRUE)}

NprocChoices == {1, 2}
NChunksChoices == {3}

\* ------------------------------------------------------ MultiTool.__init__
MultiTool(pf, nbo, nch, np, drop) ==
    [pfunc |-> pf, nbandsout |-> nbo, nchunks |-> nch, nproc |-> np,
     dropnodata |-> drop, wfunc |-> "None",
     has |-> {}, rfunc |-> NoRfunc, inshape |-> <<0, 0, 0>>, id |-> 0,
     arrout |-> 0, chunks |-> <<>>]

NoGlobals ==
    [OUTBANDS |-> 0, RFUNC |-> NoRfunc, PFUNC |-> "ident", WFUNC |-> "None",
     DROPNODATA |-> FALSE]

InitRest ==
    /\ MT = NoGlobals
    /\ shm = <<>>
    /\ deleted = <<>>
    /\ pc = "idle"
    /\ entry = "none"
    /\ arg = NoArray
    /\ calls = 0
    /\ outcome = "none"
    /\ ret = 0
    /\ created = {}
    /\ handed = {}
    /\ status = <<>>
    /\ log = <<>>
    /\ readby = {}
    /\ idx = 1
    /\ inflight = {}
    /\ prev = NoPrev

Init ==
    /\ \E pf \in Pfuncs, nbo \in 1 .. MaxBands, nch \in NChunksChoices,
          np \in NprocChoices, drop \in BOOLEAN :
          self = MultiTool(pf, nbo, nch, np, drop)
    /\ InitRest
    /\ cargs = <<<<1, 0, 1>>, 1>>
    /\ cret = <<>>

\* ------------------------------------------------- MultiTool._setup_arrays
\* a plausible slip: the rows and the columns of the shape taken the wrong
\* way round
SetupChunks_mutant(s) ==
    chunk(<<Bands(s.inshape), Cols(s.inshape), Rows(s.inshape)>>,
          DefaultNChunks)

\* self.chunk(self.inshape): the nchunks parameter is left at its default
SetupChunks(s) == chunk(s.inshape, DefaultNChunks)

\* the shape handed to sa.create
BufferShape(s) == s.inshape

\* _setup_arrays(inshape) on instance s with shared arrays m:
\* the instance and the shared arrays afterwards
setup_arrays(s, m, shape) ==
    LET s1 == [s EXCEPT !.inshape = shape, !.has = @ \cup {"inshape"}]
    IN  IF s1.wfunc = "None"
        THEN [self |-> [s1 EXCEPT !.id = Len(m) + 1,
                                  !.arrout = Len(m) + 1,
                                  !.chunks = SetupChunks(s1),
                                  !.wfunc = "default",
                                  !.has = @ \cup {"id", "arrout", "chunks"}],
              shm |-> Append(m, NanArray(BufferShape(s1))),
              created |-> {Len(m) + 1}]
        ELSE [self |-> s1, shm |-> m, created |-> {}]

\* ------------------------------------------------------ MultiTool._cleanup
\* a plausible slip the other way round: free whenever a write function is set
CleanupDeletes_mutant(s) == s.wfunc # "None"

\* the condition under which _cleanup calls sa.delete(self.id)
CleanupDeletes(s) == s.wfunc = "None"

\* ---------------------------------------------- MultiTool._setup_globals
setup_globals(s) ==
    [OUTBANDS |-> s.nbandsout, RFUNC |-> s.rfunc, PFUNC |-> s.pfunc,
     WFUNC |-> s.wfunc, DROPNODATA |-> s.dropnodata]

AllPending(s) == [i \in DOMAIN s.chunks |-> "Pending"]
NoCalls(s) == [i \in DOMAIN s.chunks |-> <<0, 0, 0>>]

\* the pool of an earlier, failed invocation has no task left and none running
PoolQuiet == self.nproc = 1 \/ (inflight = {} /\ idx > Len(status))

CanCall == pc = "idle" /\ calls < MaxCalls /\ PoolQuiet

\* the part of an invocation that both entry points share after their setup;
\* the caller keeps what the last returned invocation gave it: the array
\* (by name) and a copy of its contents at the return
Enter(name, a, su, s) ==
    /\ self' = s
    /\ shm' = su.shm
    /\ deleted' = deleted \o [i \in 1 .. Len(su.shm) - Len(shm) |-> 0]
    /\ created' = su.created
    /\ entry' = name
    /\ arg' = a
    /\ calls' = calls + 1
    /\ outcome' = "none"
    /\ ret' = 0
    /\ status' = AllPending(s)
    /\ log' = NoCalls(s)
    /\ readby' = {}
    /\ idx' = Len(s.chunks) + 1
    /\ inflight' = {}
    /\ pc' = "process"
    /\ prev' = IF outcome = "returned"
               THEN [entry |-> entry, arg |-> arg, name |-> ret,
                     out |-> shm[ret]]
               ELSE prev
    /\ UNCHANGED <<MT, handed, cargs, cret>>

\* the caller installs a write function of its own on a new instance, before
\* the first run: mt.wfunc = f
set_wfunc ==
    /\ pc = "idle"
    /\ calls = 0
    /\ self.wfunc = "None"
    /\ self' = [self EXCEPT !.wfunc = "caller"]
    /\ UNCHANGED <<MT, shm, deleted, pc, entry, arg, calls, outcome, ret,
                   created, handed, status, log, readby, idx, inflight,
                   cargs, cret, prev>>

\* process_array(arrin), up to the choice of the processing mode
process_array(arrin) ==
    /\ CanCall
    /\ LET su == setup_arrays(self, shm, arrin.shape)
       IN  Enter("process_array", arrin, su,
                 [su.self EXCEPT !.rfunc = [kind |-> "lambda", arr |-> arrin],
                                 !.has = @ \cup {"rfunc"}])

\* process_array(arrin) with arrin the array that an earlier invocation on
\* this instance returned (the instance's shared array itself, not a copy)
process_array_returned ==
    /\ CanCall
    /\ self.arrout \in handed
    /\ LET arrin == shm[self.arrout]
           su == setup_arrays(self, shm, arrin.shape)
       IN  Enter("process_array", arrin, su,
                 [su.self EXCEPT !.rfunc = [kind |-> "shared", arr |-> NoArray],
                                 !.has = @ \cup {"rfunc"}])

\* read_and_process(inshape, rfunc), up to the choice of the processing mode;
\* the caller's rfunc reads the regions of src, an array of shape inshape
read_and_process(src) ==
    /\ CanCall
    /\ LET su == setup_arrays(self, shm, src.shape)
       IN  Enter("read_and_process", src, su, su.self)

Failed(st) == st \in {"TypeError", "ValueError"}

\* an exception leaves the entry point: _cleanup and the return are skipped
Raise(e) ==
    /\ pc' = "idle"
    /\ outcome' = e

\* mt_worker(self.chunks[i]) as a step: the buffer, the chunk's status and
\* its call counts afterwards
WorkerStep(i) ==
    LET r == mt_worker(MT, self.chunks[i], shm[self.arrout])
    IN  /\ shm' = [shm EXCEPT ![self.arrout] = r.buf]
        /\ status' = [status EXCEPT
                        ![i] = IF r.exc = "none" THEN "Done" ELSE r.exc]
        /\ log' = [log EXCEPT ![i] = r.calls]
        /\ readby' = readby \cup {MT.RFUNC}

\* ---------------------------------------------- MultiTool._process_nomulti
\* self._setup_globals(self.nbandsout, self.rfunc, ...): reading self.rfunc
\* raises AttributeError when no process_array call has set it; so does
\* reading self.chunks for the loop when no _setup_arrays has set it
process_nomulti ==
    /\ pc = "process"
    /\ self.nproc = 1
    /\ IF "rfunc" \notin self.has
       THEN /\ Raise("AttributeError")
            /\ UNCHANGED <<MT, idx>>
       ELSE IF "chunks" \notin self.has
       THEN /\ MT' = setup_globals(self)
            /\ Raise("AttributeError")
            /\ UNCHANGED idx
       ELSE /\ MT' = setup_globals(self)
            /\ idx' = 1
            /\ pc' = "seq"
            /\ UNCHANGED outcome
    /\ UNCHANGED <<self, shm, deleted, entry, arg, calls, ret, created, handed,
                   status, log, readby, inflight, cargs, cret, prev>>

\* one iteration of for ch in self.chunks: mt_worker(ch); an exception of
\* mt_worker ends the loop and the invocation
seq_step ==
    /\ pc = "seq"
    /\ idx <= Len(status)
    /\ WorkerStep(idx)
    /\ idx' = idx + 1
    /\ IF Failed(status'[idx])
       THEN Raise(status'[idx])
       ELSE UNCHANGED <<pc, outcome>>
    /\ UNCHANGED <<self, MT, deleted, entry, arg, calls, ret, created, handed,
                   inflight, cargs, cret, prev>>

\* the loop is over: _process_nomulti returns to its caller
seq_done ==
    /\ pc = "seq"
    /\ idx > Len(status)
    /\ pc' = "cleanup"
    /\ UNCHANGED <<self, MT, shm, deleted, entry, arg, calls, outcome, ret,
                   created, handed, status, log, readby, idx, inflight, cargs, cret, prev>>

\* ----------------------------------------------------- MultiTool._process
\* multiprocessing.Pool(self.nproc, initializer=self._setup_globals, ...):
\* every worker starts with the same globals; pool.map queues the chunks
\* (reading self.rfunc for initargs, or self.chunks for pool.map, raises
\* AttributeError when the attribute was never set)
process_pool ==
    /\ pc = "process"
    /\ self.nproc # 1
    /\ IF "rfunc" \notin self.has
       THEN /\ Raise("AttributeError")
            /\ UNCHANGED <<MT, idx>>
       ELSE IF "chunks" \notin self.has
       THEN /\ MT' = setup_globals(self)
            /\ Raise("AttributeError")
            /\ UNCHANGED idx
       ELSE /\ MT' = setup_globals(self)
            /\ idx' = 1
            /\ pc' = "pool"
            /\ UNCHANGED outcome
    /\ UNCHANGED <<self, shm, deleted, entry, arg, calls, ret, created, handed,
                   status, log, readby, inflight, cargs, cret, prev>>

MinOf(S) == CHOOSE x \in S : \A y \in S : x <= y

\* an idle worker takes the next chunk of the task queue
pool_take ==
    /\ pc \in {"pool", "idle"}
    /\ self.nproc # 1
    /\ idx <= Len(status)
    /\ Cardinality(inflight) < self.nproc
    /\ inflight # {} => idx - MinOf(inflight) <= MaxLag
    /\ inflight' = inflight \cup {idx}
    /\ status' = [status EXCEPT ![idx] = "Running"]
    /\ idx' = idx + 1
    /\ UNCHANGED <<self, MT, shm, deleted, pc, entry, arg, calls, outcome,
                   ret, created, handed, log, readby, cargs, cret, prev>>

\* a worker runs mt_worker on the chunk it took
pool_work(i) ==
    /\ pc \in {"pool", "idle"}
    /\ i \in inflight
    /\ WorkerStep(i)
    /\ inflight' = inflight \ {i}
    /\ UNCHANGED <<self, MT, deleted, pc, entry, arg, calls, outcome, ret,
                   created, handed, idx, cargs, cret, prev>>

\* a plausible slip: the map returns as soon as the task queue is empty,
\* without waiting for the chunks still with a worker
pool_join_mutant ==
    /\ pc = "pool"
    /\ idx > Len(status)
    /\ \A i \in DOMAIN status : ~Failed(status[i])
    /\ pc' = "cleanup"
    /\ UNCHANGED <<self, MT, shm, deleted, entry, arg, calls, outcome, ret,
                   created, handed, status, log, readby, idx, inflight, cargs, cret, prev>>

\* pool.map returns once every chunk has been processed
pool_join ==
    /\ pc = "pool"
    /\ \A i \in DOMAIN status : status[i] = "Done"
    /\ pc' = "cleanup"
    /\ UNCHANGED <<self, MT, shm, deleted, entry, arg, calls, outcome, ret,
                   created, handed, status, log, readby, idx, inflight, cargs, cret, prev>>

\* pool.map re-raises a worker's exception in the caller; the other workers
\* go on with the chunks that are left
pool_raise ==
    /\ pc = "pool"
    /\ \E e \in {status[i] : i \in DOMAIN status} :
          /\ Failed(e)
          /\ Raise(e)
    /\ UNCHANGED <<self, MT, shm, deleted, entry, arg, calls, ret, created, handed,
                   status, log, readby, idx, inflight, cargs, cret, prev>>

\* ------------------------------------- self._cleanup(); return self.arrout
cleanup_return ==
    /\ pc = "cleanup"
    /\ deleted' = IF CleanupDeletes(self)
                  THEN [deleted EXCEPT ![self.id] = @ + 1]
                  ELSE deleted
    /\ ret' = self.arrout
    /\ handed' = handed \cup {self.arrout}
    /\ outcome' = "returned"
    /\ pc' = "idle"
    /\ UNCHANGED <<self, MT, shm, entry, arg, calls, created, status, log,
                   readby, idx, inflight, cargs, cret, prev>>

Next ==
    \/ set_wfunc
    \/ \E arrin \in Inputs : process_array(arrin)
    \/ process_array_returned
    \/ \E src \in Inputs : read_and_process(src)
    \/ process_nomulti
    \/ seq_step
    \/ seq_done
    \/ process_pool
    \/ pool_take
    \/ \E i \in inflight : pool_work(i)
    \/ pool_join
    \/ pool_raise
    \/ cleanup_return

Spec == Init /\ [][Next]_vars

\* ------------------------------------------- MultiTool.chunk called directly
\* the static method applied to a shape and a chunk count of the caller's
ChunkShapes == {1} \X (0 .. MaxChunkRows) \X (1 .. MaxChunkCols)

InitChunk ==
    /\ self = MultiTool("ident", 1, DefaultNChunks, 1, FALSE)
    /\ InitRest
    /\ \E sh \in ChunkShapes, n \in 1 .. MaxChunkN : cargs = <<sh, n>>
    /\ cret = <<>>

chunk_call ==
    /\ cret = <<>>
    /\ cret' = chunk(cargs[1], cargs[2])
    /\ UNCHANGED <<runvars, cargs>>

NextChunk == chunk_call

SpecChunk == InitChunk /\ [][NextChunk]_vars

\* ------------------------------------ a MultiTool configured with nchunks=0
\* MultiTool(pfunc, nbandsout, nchunks=0, nproc, dropnodata): __init__ stores
\* the value unchecked
InitZeroChunks ==
    /\ \E pf \in Pfuncs, nbo \in 1 .. MaxBands, np \in NprocChoices,
          drop \in BOOLEAN :
          self = MultiTool(pf, nbo, 0, np, drop)
    /\ InitRest
    /\ cargs = <<<<1, 0, 1>>, 1>>
    /\ cret = <<>>

SpecZeroChunks == InitZeroChunks /\ [][Next]_vars

\* ================================================================ claims
AllPixels(arr) == (0 .. Rows(arr.shape) - 1) \X (0 .. Cols(arr.shape) - 1)

PixelVector(arr, p) ==
    [b \in 0 .. Bands(arr.shape) - 1 |-> arr.d[<<b, p[1], p[2]>>]]

\* the transform pf applied to the whole of arr at once
WholeArray(pf, arr) ==
    LET nb == Bands(arr.shape)
        sh == <<PfuncBands(pf, nb), Rows(arr.shape), Cols(arr.shape)>>
    IN  [shape |-> sh,
         d |-> [x \in Cells(sh) |->
                  PfuncPixel(pf, PixelVector(arr, <<x[2], x[3]>>), nb)[x[1]]]]

RECURSIVE SumExtents(_, _)
SumExtents(chs, k) ==
    IF k = 0 THEN 0 ELSE SumExtents(chs, k - 1) + RowExt(chs[k])

\* the invocation has ended, and no worker of its pool is still at work
Ended == pc = "idle" /\ outcome # "none" /\ PoolQuiet

\* the invocation is past its setup and has not ended
Running == pc \in {"process", "seq", "pool", "cleanup"}

\* C1: for every row count R >= 0 and chunk count N >= 1 the descriptors of
\* chunk() partition the rows: every row of [0, R) lies in exactly one
\* descriptor's row range, the row extents sum to R, none is negative, and
\* every descriptor has col_offset 0 and col_extent = the column count.
C1_ChunkPartition ==
    cret # <<>> =>
        LET R == Rows(cargs[1])
        IN  /\ \A r \in 0 .. R - 1 :
                  Cardinality({i \in DOMAIN cret :
                                  /\ RowOff(cret[i]) <= r
                                  /\ r < RowOff(cret[i]) + RowExt(cret[i])}) = 1
            /\ SumExtents(cret, Len(cret)) = R
            /\ \A i \in DOMAIN cret :
                  /\ RowExt(cret[i]) >= 0
                  /\ ColOff(cret[i]) = 0
                  /\ ColExt(cret[i]) = Cols(cargs[1])

\* chunk() has returned for a row count that the chunk count does not divide,
\* with at least two chunks one row larger than the rest
W1_ChunkUneven ==
    /\ cret # <<>>
    /\ Rows(cargs[1]) > cargs[2]
    /\ Rows(cargs[1]) % cargs[2] >= 2

\* C2: for every input array and every pixel-wise transform that does not
\* fail, process_array returns an array equal to the transform applied to the
\* whole array, with one worker and with a pool, in every completion order.
\* (Stated where the claim is least demanding: the first invocation on an
\* instance, the default dropnodata = False, and an nbandsout equal to the
\* transform's band count.)
C2_MatchesWholeArray ==
    ( /\ pc = "idle"
      /\ entry = "process_array"
      /\ calls = 1
      /\ outcome # "none"
      /\ self.wfunc = "default"
      /\ ~self.dropnodata
      /\ ~PfuncRaises(self.pfunc, arg, AllPixels(arg))
      /\ self.nbandsout = PfuncBands(self.pfunc, Bands(arg.shape)) )
    => /\ outcome = "returned"
       /\ shm[ret] = WholeArray(self.pfunc, arg)

\* the chunks of the run on whose data the transform raises
RaisingChunks ==
    {i \in DOMAIN self.chunks :
        LET data == Slice(arg, self.chunks[i])
        IN  PfuncRaises(self.pfunc, data, ValidPixels(data, self.dropnodata))}

\* C3: when the transform raises for exactly one chunk, at the end of the run
\* that chunk's region of the output is all NaN, every other chunk's region
\* holds its transformed values, and process_array returns normally.
\* (Stated for the first invocation on an instance whose nbandsout is the
\* band count of the input.)
C3_FaultIsolated ==
    ( /\ Ended
      /\ entry = "process_array"
      /\ calls = 1
      /\ self.nbandsout = Bands(arg.shape)
      /\ Cardinality(RaisingChunks) = 1 )
    => /\ outcome = "returned"
       /\ \A i \in DOMAIN self.chunks :
             LET data == Slice(arg, self.chunks[i])
             IN  Slice(shm[self.arrout], self.chunks[i]) =
                    IF i \in RaisingChunks
                    THEN NanArray(<<self.nbandsout, Rows(data.shape),
                                    Cols(data.shape)>>)
                    ELSE ScratchOutput(MT, data)

\* C4: with dropnodata, after a run every pixel position of the input with a
\* NaN in some band is NaN in every output band, and every other pixel
\* position holds the transform's result for its pixel-vector.
C4_NodataDropped ==
    (pc = "idle" /\ outcome = "returned" /\ self.dropnodata) =>
        LET out == shm[ret]
            nb == Bands(arg.shape)
            row(b) == IF PfuncBands(self.pfunc, nb) = 1 THEN 0 ELSE b
        IN  \A p \in AllPixels(arg) :
               /\ p \in AllPixels(out)
               /\ IF \E b \in 0 .. nb - 1 : arg.d[<<b, p[1], p[2]>>] = NaN
                  THEN \A b \in 0 .. Bands(out.shape) - 1 :
                          out.d[<<b, p[1], p[2]>>] = NaN
                  ELSE \A b \in 0 .. self.nbandsout - 1 :
                          /\ b < Bands(out.shape)
                          /\ out.d[<<b, p[1], p[2]>>] =
                                PfuncPixel(self.pfunc, PixelVector(arg, p),
                                           nb)[row(b)]

\* C5: in read_and_process(inshape, rfunc) every chunk is read with the rfunc
\* argument of this call, on a fresh instance and on a used one: the call
\* does not fail for want of a read function, and no other function reads.
C5_CallerRfunc ==
    entry = "read_and_process" =>
        /\ outcome # "AttributeError"
        /\ \A f \in readby : f = [kind |-> "caller", arr |-> arg]

\* C6: when process_array or read_and_process returns, every shared array the
\* invocation created with sa.create has been deleted with sa.delete once.
C6_FreedOnce ==
    (pc = "idle" /\ outcome = "returned") =>
        \A b \in created : deleted[b] = 1

\* C7: no array handed to the caller is backed by a shared array that the
\* orchestrator has freed, at the return or in any later invocation.
C7_ReturnedNotFreed ==
    \A b \in handed : deleted[b] = 0

\* a second invocation on the instance has returned the shared array too
W7_ReturnedTwice ==
    /\ calls = 2
    /\ pc = "idle"
    /\ outcome = "returned"
    /\ ret \in handed

\* C8: the output buffer of a run has the shape (nbandsout, input rows,
\* input columns), whatever the band count of the input.
C8_BufferShape ==
    (Running /\ self.wfunc = "default") =>
        shm[self.arrout].shape =
            <<self.nbandsout, Rows(self.inshape), Cols(self.inshape)>>

\* C9: the number of chunk descriptors a run dispatches is the nchunks the
\* MultiTool was configured with.
C9_ChunkCount ==
    (Running /\ self.wfunc = "default") => Len(self.chunks) = self.nchunks

\* C10: in every invocation, the first and the later ones on an instance,
\* every cell of the output buffer is NaN before the first chunk is processed.
C10_NanBeforeFirstChunk ==
    ( /\ pc \in {"process", "seq", "pool"}
      /\ self.wfunc = "default"
      /\ \A i \in DOMAIN status : status[i] = "Pending" )
    => \A x \in Cells(shm[self.arrout].shape) : shm[self.arrout].d[x] = NaN

\* C11: a run configured with chunk count 0 ends with an error that reaches
\* the caller instead of returning an output, and the shared buffer the run
\* allocated has been freed when it ends.  (Stated for the first
\* process_array call on an instance whose transform does not fail and whose
\* nbandsout is the band count of the input, so that nothing but the chunk
\* count is wrong with the run.)
C11_ZeroChunksAborts ==
    ( /\ self.nchunks = 0
      /\ self.wfunc = "default"
      /\ Ended
      /\ entry = "process_array"
      /\ calls = 1
      /\ ~PfuncRaises(self.pfunc, arg, AllPixels(arg))
      /\ self.nbandsout = Bands(arg.shape)
      /\ PfuncBands(self.pfunc, Bands(arg.shape)) = self.nbandsout )
    => /\ outcome # "returned"
       /\ \A b \in created : deleted[b] = 1

\* C12: when the caller has set a write function of its own before the run,
\* the orchestrator creates no shared array and deletes none, and the run
\* still partitions the rows of its input and hands every chunk's output to
\* the caller's write function, once.  (Stated for process_array with a
\* transform that does not fail.)
C12_CallerWfunc ==
    ( /\ self.wfunc = "caller"
      /\ Ended
      /\ entry = "process_array"
      /\ ~PfuncRaises(self.pfunc, arg, AllPixels(arg))
      /\ PfuncBands(self.pfunc, Bands(arg.shape)) \in {self.nbandsout, 1} )
    => /\ shm = <<>>
       /\ outcome = "returned"
       /\ "chunks" \in self.has
       /\ SumExtents(self.chunks, Len(self.chunks)) = Rows(arg.shape)
       /\ MT.WFUNC = "caller"
       /\ \A i \in DOMAIN self.chunks : log[i][3] = 1

\* C13: every chunk a run has attempted went through read, transform and
\* write once each and is Done: the read function was called once for it, the
\* transform at most once, and the write function exactly once, also when the
\* transform raised for it, in which case its region of the output is NaN.
\* (Stated for the first process_array call on an instance that uses the
\* default write function and whose nbandsout is the band count of the input.)
C13_ChunkOnce ==
    ( /\ entry = "process_array"
      /\ calls = 1
      /\ self.wfunc = "default"
      /\ self.nbandsout = Bands(arg.shape) )
    => \A i \in DOMAIN status :
          status[i] \notin {"Pending", "Running"} =>
              /\ status[i] = "Done"
              /\ log[i][1] = 1
              /\ log[i][2] <= 1
              /\ log[i][3] = 1
              /\ i \in RaisingChunks =>
                    \A x \in Cells(shm[self.arrout].shape) :
                        ( /\ x[2] >= RowOff(self.chunks[i])
                          /\ x[2] < RowOff(self.chunks[i]) + RowExt(self.chunks[i]) )
                        => shm[self.arrout].d[x] = NaN

\* the chunks of the run whose write region holds cell x of the buffer
Owners(x) == {i \in DOMAIN self.chunks : InRegion(x, self.chunks[i])}

\* every cell of the buffer lies in the write region of exactly one chunk
OneOwnerEach ==
    \A x \in Cells(shm[self.arrout].shape) : Cardinality(Owners(x)) = 1

\* when the run returns, the one chunk that owns a cell has written, once
WrittenOnce ==
    \A x \in Cells(shm[self.arrout].shape) :
        \A i \in Owners(x) : status[i] = "Done" /\ log[i][3] = 1

\* a step that changes the buffer is the completion of one chunk and changes
\* no cell outside that chunk's region
WriteStaysInRegion ==
    (Len(shm') = Len(shm) /\ shm' # shm) =>
        \E i \in DOMAIN status :
            /\ status[i] # "Done"
            /\ status'[i] = "Done"
            /\ \A x \in Cells(shm[self.arrout].shape) :
                  shm'[self.arrout].d[x] # shm[self.arrout].d[x]
                      => InRegion(x, self.chunks[i])

\* C14: in every interleaving of the pool's workers the regions the default
\* write function writes for the chunks of a run are pairwise disjoint and
\* cover the buffer (every cell lies in exactly one chunk's region), each
\* write changes cells of its own chunk's region only, and when the run
\* returns every cell has been written exactly once.
C14_DisjointWrites ==
    /\ []( ( /\ self.wfunc = "default"
             /\ pc = "process" \/ (pc = "idle" /\ outcome = "returned") )
           => OneOwnerEach )
    /\ []( (self.wfunc = "default" /\ pc = "idle" /\ outcome = "returned")
           => WrittenOnce )
    /\ [][WriteStaysInRegion]_vars

\* two workers of the pool hold chunks with rows to write at the same time
W14_TwoWritersInFlight ==
    /\ pc = "pool"
    /\ Cardinality({i \in inflight : RowExt(self.chunks[i]) > 0}) = 2

\* C15: process_array and read_and_process do not return before every chunk
\* of the run is Done: from the end of the processing step to the return no
\* chunk is pending or with a worker, with one worker and with a pool, in
\* every order of completion.
C15_ReturnAfterAllDone ==
    (pc = "cleanup" \/ (pc = "idle" /\ outcome = "returned")) =>
        /\ inflight = {}
        /\ Len(status) = Len(self.chunks)
        /\ \A i \in DOMAIN status : status[i] = "Done"

\* a pool run over chunks with rows has returned
W15_PoolReturned ==
    /\ pc = "idle"
    /\ outcome = "returned"
    /\ self.nproc = 2
    /\ Cardinality({i \in DOMAIN status : RowExt(self.chunks[i]) > 0}) >= 2

\* C16: for row count R and chunk count N >= 1, with base = floor(R / N) and
\* remainder = R - base * N, chunk() returns N descriptors, the first
\* N - remainder with base rows and the last remainder with base + 1 rows,
\* and each descriptor's row offset is the sum of the extents before it; so
\* the extents never decrease along the sequence and differ by at most 1.
C16_ChunkSizes ==
    cret # <<>> =>
        LET R == Rows(cargs[1])
            N == cargs[2]
            base == R \div N
            remainder == R - base * N
        IN  /\ Len(cret) = N
            /\ \A i \in 1 .. N :
                  /\ RowExt(cret[i]) =
                        IF i <= N - remainder THEN base ELSE base + 1
                  /\ RowOff(cret[i]) = SumExtents(cret, i - 1)
                  /\ i < N => RowExt(cret[i]) <= RowExt(cret[i + 1])
            /\ \A i, j \in 1 .. N :
                  RowExt(cret[i]) - RowExt(cret[j]) \in {-1, 0, 1}

\* chunk() has returned chunks of base rows followed by exactly one chunk of
\* base + 1 rows, base >= 1
W16_OneLargerChunk ==
    /\ cret # <<>>
    /\ cargs[2] >= 2
    /\ Rows(cargs[1]) > cargs[2]
    /\ Rows(cargs[1]) % cargs[2] = 1

\* C17: when the run has more chunks than the input has rows, it completes
\* without error: no zero-extent chunk fails, the cells of a chunk that has
\* not written are untouched (NaN) whatever zero-extent chunks have run,
\* the run returns, and the extents of the chunks add up to the rows.
\* (Stated for the first process_array call on an instance that uses the
\* default write function, with a transform that does not raise and whose
\* result fits the nbandsout rows of a chunk's output.)
C17_EmptyChunksHarmless ==
    ( /\ entry = "process_array"
      /\ calls = 1
      /\ self.wfunc = "default"
      /\ Len(self.chunks) > Rows(arg.shape)
      /\ ~PfuncRaises(self.pfunc, arg, AllPixels(arg))
      /\ PfuncBands(self.pfunc, Bands(arg.shape)) \in {self.nbandsout, 1} )
    => /\ \A i \in DOMAIN status :
             RowExt(self.chunks[i]) = 0 => ~Failed(status[i])
       /\ \A x \in Cells(shm[self.arrout].shape) :
             (\A i \in Owners(x) : status[i] # "Done")
                 => shm[self.arrout].d[x] = NaN
       /\ Ended => outcome = "returned"
       /\ SumExtents(self.chunks, Len(self.chunks)) = Rows(arg.shape)

\* a process_array call has returned whose input equals the input of the
\* last returned process_array call on the instance: its output equals the
\* output of that call
SameOutputAgain ==
    ( /\ pc = "idle"
      /\ outcome = "returned"
      /\ entry = "process_array"
      /\ prev.entry = "process_array"
      /\ prev.arg = arg )
    => shm[ret] = prev.out

\* during and after a process_array call the input array holds what it held
\* at the call
InputUntouched ==
    (entry = "process_array" /\ "rfunc" \in self.has) =>
        IF self.rfunc.kind = "shared"
        THEN shm[self.arrout] = arg
        ELSE self.rfunc.arr = arg

\* C18: process_array run twice with the same configuration and the same
\* input gives identical outputs, and a run never modifies its input array
\* in place.
C18_SameTwice ==
    /\ SameOutputAgain
    /\ InputUntouched

\* C19: an array that one process_array call returned is not changed by a
\* later process_array call on the instance: the later invocation creates an
\* output buffer of its own, so its result is a different array, and the
\* rows and columns of that buffer and the chunk list follow the shape of
\* the later input.
C19_OwnBufferEach ==
    ( /\ entry = "process_array"
      /\ prev.entry = "process_array"
      /\ self.wfunc = "default" )
    => /\ shm[prev.name] = prev.out
       /\ created # {}
       /\ self.arrout # prev.name
       /\ Rows(shm[self.arrout].shape) = Rows(arg.shape)
       /\ Cols(shm[self.arrout].shape) = Cols(arg.shape)
       /\ SumExtents(self.chunks, Len(self.chunks)) = Rows(arg.shape)
       /\ \A i \in DOMAIN self.chunks : ColExt(self.chunks[i]) = Cols(arg.shape)

====